---- MODULE Spec2Model ----
(***************************************************************************)
(* Model of Assignment2.py: the five spatial filters (module functions)   *)
(* and the SpatialFilteringApp session (image, working base, ordered      *)
(* results, kernel size, PDF report).  Rasters are sequences of rows of   *)
(* 8-bit samples; None is the empty raster.  Library calls (cv2, scipy,   *)
(* skimage) are modelled by their documented semantics at the call site.  *)
(***************************************************************************)
EXTENDS Integers, Sequences, FiniteSets, TLC

VARIABLES original_img, processing_base_img, current_name, kernel_size_var,
          results, report, outdir, dialog,
          lastOp, outcome, pre, usedKernel, nops

vars == <<original_img, processing_base_img, current_name, kernel_size_var,
          results, report, outdir, dialog, lastOp, outcome, pre, usedKernel, nops>>

\* ---------------------------------------------------------------- bounds
\* rasters of the model are Height x Width; a run makes at most MaxOps calls
Height == 3
Width == 3
MaxOps == 3

\* ------------------------------------------------------------- constants
SliderFrom == 3
SliderTo == 15
SmoothKsize == 5
Int16Min == -32768
Int16Max == 32767
UInt8Max == 255

None == <<>>

\* ------------------------------------------------------------ arithmetic
Abs(x) == IF x < 0 THEN -x ELSE x

Clamp(x, lo, hi) == IF x < lo THEN lo ELSE IF x > hi THEN hi ELSE x

\* saturate_cast<uchar>
SatU8(x) == Clamp(x, 0, UInt8Max)

\* saturate_cast<short>: the CV_16S destination depth
Sat16(x) == Clamp(x, Int16Min, Int16Max)

\* round-half-to-even of n/d (d > 0): Python round() and cvRound
RoundHalfEven(n, d) ==
    LET q == n \div d
        r == n % d
    IN  IF 2 * r < d THEN q
        ELSE IF 2 * r > d THEN q + 1
        ELSE IF q % 2 = 0 THEN q ELSE q + 1

\* the sum of s[lo..hi], halving the range
RECURSIVE SumRange(_, _, _)
SumRange(s, lo, hi) ==
    IF lo > hi THEN 0
    ELSE IF lo = hi THEN s[lo]
    ELSE LET mid == (lo + hi) \div 2
         IN  SumRange(s, lo, mid) + SumRange(s, mid + 1, hi)

SumSeq(s) == SumRange(s, 1, Len(s))

\* ------------------------------------------------------------- rasters
Rows(img) == Len(img)
Cols(img) == IF Len(img) = 0 THEN 0 ELSE Len(img[1])

\* the element of a singleton: names a value that is computed once
The(S) == CHOOSE y \in S : TRUE

\* a raster given row by row, its rows evaluated into sequences
AsRaster(f) == The({[r \in DOMAIN g |-> g[r] \o <<>>] \o <<>> : g \in {f}})

\* border extrapolation, 1-based index p into an axis of length n
\* cv2 BORDER_REFLECT_101 (gfedcb|abcdefgh|gfedcba): default of blur/Sobel/Laplacian
Reflect101(p, n) ==
    IF n = 1 THEN 1
    ELSE LET period == 2 * (n - 1)
             q == (p - 1) % period
         IN  IF q < n THEN q + 1 ELSE period - q + 1

\* scipy.ndimage mode='reflect' (dcba|abcd|dcba): default of generic_filter
ReflectEdge(p, n) ==
    LET period == 2 * n
        q == (p - 1) % period
    IN  IF q < n THEN q + 1 ELSE period - q

\* cv2 BORDER_REPLICATE (aaaaaa|abcdefgh|hhhhhhh): used by medianBlur
Replicate(p, n) == Clamp(p, 1, n)

Border(mode, p, n) ==
    CASE mode = "reflect101" -> Reflect101(p, n)
      [] mode = "reflect" -> ReflectEdge(p, n)
      [] mode = "replicate" -> Replicate(p, n)

\* the source indices of the k window positions along an axis of length n,
\* for a window centred at p
AxisIndices(mode, p, k, n) == [d \in 1..k |-> Border(mode, p - (k \div 2) + d - 1, n)] \o <<>>

\* the k x k window around (r, c), row-major, as a sequence of k*k samples
Window(img, r, c, k, mode) ==
    The({[i \in 1..(k * k) |-> img[ri[((i - 1) \div k) + 1]][ci[((i - 1) % k) + 1]]] \o <<>> :
            ri \in {AxisIndices(mode, r, k, Rows(img))},
            ci \in {AxisIndices(mode, c, k, Cols(img))}})

\* ------------------------------------------------------- pipeline functions
\* cv2.blur, one sample: the window sum / (k*k), rounded to nearest, as uint8
MeanAt(img, ksize, r, c) ==
    The({SatU8(RoundHalfEven(SumSeq(w), ksize * ksize)) :
            w \in {Window(img, r, c, ksize, "reflect101")}})

apply_mean_filter(img, ksize) ==
    AsRaster([r \in 1..Rows(img) |-> [c \in 1..Cols(img) |-> MeanAt(img, ksize, r, c)]])

\* the m-th smallest sample of a window (1-based)
KthSmallest(w, m) ==
    CHOOSE v \in {w[i] : i \in DOMAIN w} :
        /\ Cardinality({i \in DOMAIN w : w[i] <= v}) >= m
        /\ Cardinality({i \in DOMAIN w : w[i] < v}) < m

\* cv2.medianBlur, one sample: the median of the window, replicated border
MedianAt(img, ksize, r, c) ==
    The({KthSmallest(w, (ksize * ksize + 1) \div 2) :
            w \in {Window(img, r, c, ksize, "replicate")}})

apply_median_filter(img, ksize) ==
    AsRaster([r \in 1..Rows(img) |-> [c \in 1..Cols(img) |-> MedianAt(img, ksize, r, c)]])

\* the largest sample of a window
MaxOf(x) == CHOOSE m \in {x[i] : i \in DOMAIN x} : \A i \in DOMAIN x : x[i] <= m

\* np.bincount(x): the occurrences of each value 0..max(x); the count of value
\* v is element v + 1 of the sequence (values that do not occur count 0)
Bincount(x) ==
    The({[j \in 1..(MaxOf(x) + 1) |->
            IF j - 1 \in vals THEN Cardinality({i \in DOMAIN x : x[i] = j - 1}) ELSE 0] \o <<>>
         : vals \in {{x[i] : i \in DOMAIN x}}})

\* the last position of counts[lo..hi] holding its maximum
RECURSIVE ArgmaxLastRange(_, _, _)
ArgmaxLastRange(counts, lo, hi) ==
    IF lo = hi THEN lo
    ELSE The({IF counts[b] >= counts[a] THEN b ELSE a :
                 a \in {ArgmaxLastRange(counts, lo, (lo + hi) \div 2)},
                 b \in {ArgmaxLastRange(counts, ((lo + hi) \div 2) + 1, hi)}})

ArgmaxLast(counts) == ArgmaxLastRange(counts, 1, Len(counts)) - 1

\* the first position of counts[lo..hi] holding its maximum: a later position
\* wins only with a strictly larger count
RECURSIVE ArgmaxRange(_, _, _)
ArgmaxRange(counts, lo, hi) ==
    IF lo = hi THEN lo
    ELSE The({IF counts[b] > counts[a] THEN b ELSE a :
                 a \in {ArgmaxRange(counts, lo, (lo + hi) \div 2)},
                 b \in {ArgmaxRange(counts, ((lo + hi) \div 2) + 1, hi)}})

\* ndarray.argmax(): the value whose count is the maximum, the first one on ties
Argmax(counts) == ArgmaxRange(counts, 1, Len(counts)) - 1

\* lambda x: np.bincount(x.astype(int)).argmax() on the window generic_filter
\* hands it (size=ksize, mode='reflect')
ModeAt(img, ksize, r, c) ==
    The({Argmax(counts) : counts \in {Bincount(w) : w \in {Window(img, r, c, ksize, "reflect")}}})

apply_mode_filter(img, ksize) ==
    AsRaster([r \in 1..Rows(img) |-> [c \in 1..Cols(img) |-> ModeAt(img, ksize, r, c)]])

\* 3x3 correlation of img with kernel K (rows of coefficients) at (r, c), exact
Correlate3(img, K, r, c) ==
    The({SumSeq([i \in 1..9 |-> K[((i - 1) \div 3) + 1][((i - 1) % 3) + 1] * w[i]]) :
            w \in {Window(img, r, c, 3, "reflect101")}})

\* cv2.Laplacian with ksize=3 filters with this aperture (the sum of the two
\* second-derivative Sobel kernels); the [[0,1,0],[1,-4,1],[0,1,0]] aperture
\* is the ksize=1 one
LaplacianKernel == << <<2, 0, 2>>, <<0, -8, 0>>, <<2, 0, 2>> >>
SobelXKernel == << <<-1, 0, 1>>, <<-2, 0, 2>>, <<-1, 0, 1>> >>
SobelYKernel == << <<-1, -2, -1>>, <<0, 0, 0>>, <<1, 2, 1>> >>

\* the destination depth of cv2.Laplacian / cv2.Sobel: ddepth = CV_16S
Depth16S(x) == Sat16(x)

\* one sample of cv2.Laplacian(img, CV_16S, ksize=3) / cv2.Sobel(img, CV_16S, ., ., ksize=3)
Filter16S(img, K, r, c) == Depth16S(Correlate3(img, K, r, c))

\* cv2.convertScaleAbs, per sample: saturate_cast<uchar>(|x|)
convertScaleAbs(x) == SatU8(Abs(x))

\* cv2.subtract on uint8, per sample: saturating
SubtractWrap(a, b) == (a - b) % 256

subtract(a, b) == SatU8(a - b)

\* cv2.addWeighted(a, 0.5, b, 0.5, 0) on uint8, per sample
addWeighted(a, b) == SatU8(RoundHalfEven(a + b, 2))

apply_laplacian_filter(img) ==
    AsRaster([r \in 1..Rows(img) |-> [c \in 1..Cols(img) |->
        subtract(img[r][c], convertScaleAbs(Filter16S(img, LaplacianKernel, r, c)))]])

apply_sobel_filter(img) ==
    AsRaster([r \in 1..Rows(img) |-> [c \in 1..Cols(img) |->
        addWeighted(convertScaleAbs(Filter16S(img, SobelXKernel, r, c)),
                    convertScaleAbs(Filter16S(img, SobelYKernel, r, c)))]])

\* ---------------------------------------------------------------- inputs
\* files the dialog can return: two readable images, one unreadable file
\* and the empty path of a cancelled dialog
GrayImg == AsRaster([r \in 1..Height |-> [c \in 1..Width |-> 128]])
RampImg ==
    AsRaster([r \in 1..Height |-> [c \in 1..Width |-> (33 * ((r - 1) * Width + c)) % 256]])

Paths == {"gray.png", "ramp.png", "notes.bmp", ""}

\* cv2.imread(path, IMREAD_GRAYSCALE): None when the file cannot be decoded
Imread(path) ==
    CASE path = "gray.png" -> GrayImg
      [] path = "ramp.png" -> RampImg
      [] OTHER -> None

\* Path(path).stem
Stem(path) ==
    CASE path = "gray.png" -> "gray"
      [] path = "ramp.png" -> "ramp"
      [] path = "notes.bmp" -> "notes"
      [] OTHER -> ""

Methods == {"Mean Filter", "Median Filter", "Mode Filter", "Laplacian Sharpening",
            "Sobel Edge Detection", "Unsharp Mask"}

NoiseTypes == {"gaussian", "s&p", "None"}

\* slider positions, in tenths, over the Scale's from_..to range
SliderTenths == (10 * SliderFrom)..(10 * SliderTo)

\* ------------------------------------------------------------------ noise
\* img_as_float followed by (x * 255).astype(uint8): value * (1/255) * 255 in
\* float64 falls just below these levels, and the cast truncates
LossyLevels == {33, 37, 41, 45, 49, 53, 57, 61, 66, 74, 82, 90, 98, 106, 114, 122,
                132, 148, 164, 180, 196, 212, 228, 244}

FloatRoundTrip(p) == IF p \in LossyLevels THEN p - 1 ELSE p

\* one standard deviation of the gaussian noise in 8-bit levels (var=0.01)
GaussLevels == 26

\* random draws: s&p flips at most one pixel (pos 0: none) to salt or pepper;
\* gaussian shifts the pixels by +-amp in a checkerboard of signs
SaltPepperDraws == {[pos |-> 0, salt |-> TRUE], [pos |-> Height * Width, salt |-> FALSE]}
GaussianDraws == {GaussLevels}

\* (random_noise(img, mode='s&p', amount=0.05) * 255).astype(np.uint8)
SaltPepperNoise(img, d) ==
    AsRaster([r \in 1..Rows(img) |-> [c \in 1..Cols(img) |->
        IF (r - 1) * Cols(img) + c = d.pos
        THEN (IF d.salt THEN UInt8Max ELSE 0)
        ELSE FloatRoundTrip(img[r][c])]])

\* (random_noise(img, mode='gaussian', var=0.01) * 255).astype(np.uint8), clipped
GaussianNoise(img, amp) ==
    AsRaster([r \in 1..Rows(img) |-> [c \in 1..Cols(img) |->
        Clamp(img[r][c] + (IF (r + c) % 2 = 0 THEN amp ELSE -amp), 0, UInt8Max)]])

\* ---------------------------------------------------------------- results
\* self.results: insertion-ordered dict, as a sequence of (name, img) records;
\* names are sequences of the string pieces they are formatted from
OriginalName == <<"Original">>

Keys(d) == {d[i].name : i \in DOMAIN d}

\* d[name] = img: a new key is appended, an existing key keeps its position
SetItem(d, name, img) ==
    IF name \in Keys(d)
    THEN [i \in DOMAIN d |-> IF d[i].name = name THEN [name |-> name, img |-> img] ELSE d[i]]
    ELSE Append(d, [name |-> name, img |-> img])

IndexOf(d, name) == CHOOSE i \in DOMAIN d : d[i].name = name

\* f"{status_prefix}{method}"
Title(status_prefix, method) ==
    IF status_prefix = "" THEN <<method>> ELSE <<status_prefix, method>>

\* name.replace("Smoothed then ", "")
RECURSIVE CleanName(_)
CleanName(name) ==
    IF name = <<>> THEN <<>>
    ELSE IF Head(name) = "Smoothed then " THEN CleanName(Tail(name))
    ELSE <<Head(name)>> \o CleanName(Tail(name))

\* text tokens: literal pieces and formatted numbers
Lit(str) == [kind |-> "lit", s |-> str, n |-> 0]
Num(v) == [kind |-> "num", s |-> "", n |-> v]

\* self.filter_kernels: description per filter name; the Mean entry is callable
FilterKernelNames == {<<"Laplacian Sharpening">>, <<"Sobel Edge Detection">>,
                      <<"Mean Filter">>, <<"Median Filter">>, <<"Mode Filter">>}

filter_kernels(clean_name, k) ==
    CASE clean_name = <<"Laplacian Sharpening">> ->
           <<Lit("Kernel: [[0, 1, 0], [1, -4, 1], [0, 1, 0]]\n(Subtracted from Original)")>>
      [] clean_name = <<"Sobel Edge Detection">> ->
           <<Lit("Sobel X: [[-1, 0, 1], [-2, 0, 2], [-1, 0, 1]]\nSobel Y: [[-1,-2,-1], [0,0,0], [1,2,1]]")>>
      [] clean_name = <<"Mean Filter">> ->
           <<Lit("Kernel: 1/"), Num(k * k), Lit(" * ones("), Num(k), Lit(","), Num(k), Lit(")")>>
      [] clean_name = <<"Median Filter">> ->
           <<Lit("Non-linear: Takes median value in KxK neighborhood.")>>
      [] clean_name = <<"Mode Filter">> ->
           <<Lit("Non-linear: Takes most frequent value in KxK neighborhood.")>>

\* ------------------------------------------------------------------ state
\* original_img, processing_base_img, current_name, kernel_size_var, results:
\*   the fields of SpatialFilteringApp
\* report, outdir: the PDF last written (None: no file) and whether results/ exists
\* dialog: the messagebox the last call showed ("" for none)
\* lastOp, outcome, pre, usedKernel, nops: history of the run, read by the
\*   properties only: the last call and how it ended, the size of results and
\*   whether the base differed from the original before it, the kernel size
\*   each entry of results was computed with (0: none), the number of calls
Op(name, arg, flag) == [name |-> name, arg |-> arg, flag |-> flag]

Snapshot == [n |-> Len(results), noised |-> processing_base_img # original_img]

Init ==
    /\ original_img = None
    /\ processing_base_img = None
    /\ current_name = ""
    /\ kernel_size_var = SliderFrom
    /\ results = <<>>
    /\ report = None
    /\ outdir = FALSE
    /\ dialog = ""
    /\ lastOp = Op("__init__", "", FALSE)
    /\ outcome = "ok"
    /\ pre = [n |-> 0, noised |-> FALSE]
    /\ usedKernel = <<>>
    /\ nops = 0

\* a call that returns early: nothing but the dialog and the history changes
Rejected(op, kind, box) ==
    /\ lastOp' = op
    /\ outcome' = kind
    /\ dialog' = box
    /\ pre' = Snapshot
    /\ nops' = nops + 1
    /\ UNCHANGED <<original_img, processing_base_img, current_name, kernel_size_var,
                   results, report, outdir, usedKernel>>

Done(op, box) ==
    /\ lastOp' = op
    /\ outcome' = "ok"
    /\ dialog' = box
    /\ pre' = Snapshot
    /\ nops' = nops + 1

IsNoneNever(x) == FALSE

IsNone(x) == x = None

\* ---------------------------------------------------------- update_kernel_label
KsizeNoParityFix(val) == RoundHalfEven(val, 10)

\* ksize = round(float(val)); ksize += 1 if ksize % 2 == 0 else 0   (val in tenths)
Ksize(val) ==
    LET ksize == RoundHalfEven(val, 10)
    IN  IF ksize % 2 = 0 THEN ksize + 1 ELSE ksize

update_kernel_label ==
    /\ nops < MaxOps
    /\ \E val \in SliderTenths :
        /\ kernel_size_var' = Ksize(val)
        /\ Done(Op("update_kernel_label", "", FALSE), "")
    /\ UNCHANGED <<original_img, processing_base_img, current_name, results, report,
                   outdir, usedKernel>>

\* ------------------------------------------------------------------ reset_image
ResetResultsKeep(d, orig) == SetItem(d, OriginalName, orig)

\* self.results = {"Original": self.original_img}
ResetResults(d, orig) == <<[name |-> OriginalName, img |-> orig]>>

reset_image ==
    /\ nops < MaxOps
    /\ IF IsNone(original_img)
       THEN Rejected(Op("reset_image", "", FALSE), "NoImageLoaded", "showwarning")
       ELSE /\ processing_base_img' = original_img
            /\ results' = ResetResults(results, original_img)
            /\ usedKernel' = [i \in DOMAIN results' |-> 0]
            /\ Done(Op("reset_image", "", FALSE), "")
            /\ UNCHANGED <<original_img, current_name, kernel_size_var, report, outdir>>

\* ----------------------------------------------------------------- upload_image
upload_image_no_reset ==
    /\ nops < MaxOps
    /\ \E path \in Paths :
        IF path = "" THEN Rejected(Op("upload_image", path, FALSE), "cancel", "")
        ELSE IF IsNone(Imread(path))
        THEN Rejected(Op("upload_image", path, FALSE), "IOError", "showerror")
        ELSE /\ original_img' = Imread(path)
             /\ current_name' = Stem(path)
             /\ processing_base_img' = original_img'
             /\ results' = IF results = <<>> THEN ResetResults(results, original_img')
                           ELSE results
             /\ usedKernel' = [i \in DOMAIN results' |-> 0]
             /\ Done(Op("upload_image", path, FALSE), "")
             /\ UNCHANGED <<kernel_size_var, report, outdir>>

upload_image ==
    /\ nops < MaxOps
    /\ \E path \in Paths :
        IF path = "" THEN Rejected(Op("upload_image", path, FALSE), "cancel", "")
        ELSE IF IsNone(Imread(path))
        THEN Rejected(Op("upload_image", path, FALSE), "IOError", "showerror")
        ELSE /\ original_img' = Imread(path)
             /\ current_name' = Stem(path)
             \* self.reset_image()
             /\ processing_base_img' = original_img'
             /\ results' = ResetResults(results, original_img')
             /\ usedKernel' = [i \in DOMAIN results' |-> 0]
             /\ Done(Op("upload_image", path, FALSE), "")
             /\ UNCHANGED <<kernel_size_var, report, outdir>>

\* --------------------------------------------------------------------- add_noise
NoiseInputBase(orig, base) == base

\* the raster random_noise is called on: self.original_img
NoiseInput(orig, base) == orig

NoiseTitle(noise_type) ==
    IF noise_type = "gaussian" THEN <<"Base: Gaussian Noise">>
    ELSE <<"Base: Salt & Pepper Noise">>

add_noise ==
    /\ nops < MaxOps
    /\ \E noise_type \in NoiseTypes :
        IF IsNone(original_img)
        THEN Rejected(Op("add_noise", noise_type, FALSE), "NoImageLoaded", "showwarning")
        ELSE IF noise_type \notin {"gaussian", "s&p"}
        THEN Rejected(Op("add_noise", noise_type, FALSE), "InvalidParameter", "showwarning")
        ELSE \E noisy \in
                 IF noise_type = "gaussian"
                 THEN {GaussianNoise(NoiseInput(original_img, processing_base_img), a) :
                          a \in GaussianDraws}
                 ELSE {SaltPepperNoise(NoiseInput(original_img, processing_base_img), d) :
                          d \in SaltPepperDraws} :
                /\ processing_base_img' = noisy
                /\ results' = SetItem(results, NoiseTitle(noise_type), noisy)
                /\ usedKernel' = [i \in DOMAIN results' |->
                                    IF i \in DOMAIN results
                                       /\ results[i].name # NoiseTitle(noise_type)
                                    THEN usedKernel[i] ELSE 0]
                /\ Done(Op("add_noise", noise_type, FALSE), "")
                /\ UNCHANGED <<original_img, current_name, kernel_size_var, report, outdir>>

\* ------------------------------------------------------------------ apply_method
SizedMethods == {"Mean Filter", "Median Filter", "Mode Filter"}
SharpenMethods == {"Laplacian Sharpening", "Sobel Edge Detection"}

StatusPrefix(smooth, method) ==
    IF smooth /\ method \in SharpenMethods THEN "Smoothed then " ELSE ""

\* img_in: a copy of the base, median-smoothed with ksize=5 when requested
ImgIn(base, smooth, method) ==
    IF smooth /\ method \in SharpenMethods
    THEN apply_median_filter(base, SmoothKsize) ELSE base

Enhanced(method, img_in, ksize) ==
    CASE method = "Mean Filter" -> apply_mean_filter(img_in, ksize)
      [] method = "Median Filter" -> apply_median_filter(img_in, ksize)
      [] method = "Mode Filter" -> apply_mode_filter(img_in, ksize)
      [] method = "Laplacian Sharpening" -> apply_laplacian_filter(img_in)
      [] method = "Sobel Edge Detection" -> apply_sobel_filter(img_in)

\* the kernel size each entry was computed with, after results[title] is written
Remember(d, used, title, k) ==
    [i \in DOMAIN SetItem(d, title, None) |->
        IF i \in DOMAIN d /\ d[i].name # title THEN used[i] ELSE k]

apply_method_chained ==
    /\ nops < MaxOps
    /\ \E method \in Methods, smooth \in BOOLEAN :
        IF IsNone(processing_base_img)
        THEN Rejected(Op("apply_method", method, smooth), "NoImageLoaded", "showwarning")
        ELSE IF method \notin SizedMethods \cup SharpenMethods
        THEN Rejected(Op("apply_method", method, smooth), "InvalidParameter", "")
        ELSE \E img_in \in {ImgIn(processing_base_img, smooth, method)} :
             LET ksize == kernel_size_var
                 enhanced == Enhanced(method, img_in, ksize)
                 title == Title(StatusPrefix(smooth, method), method)
             IN  /\ results' = SetItem(results, title, enhanced)
                 /\ processing_base_img' = enhanced
                 /\ usedKernel' = Remember(results, usedKernel, title,
                                           IF method \in SizedMethods THEN ksize ELSE 0)
                 /\ Done(Op("apply_method", method, smooth), "")
                 /\ UNCHANGED <<original_img, current_name,
                                kernel_size_var, report, outdir>>

apply_method ==
    /\ nops < MaxOps
    /\ \E method \in Methods, smooth \in BOOLEAN :
        IF IsNone(processing_base_img)
        THEN Rejected(Op("apply_method", method, smooth), "NoImageLoaded", "showwarning")
        ELSE IF method \notin SizedMethods \cup SharpenMethods
        THEN Rejected(Op("apply_method", method, smooth), "InvalidParameter", "")
        ELSE \E img_in \in {ImgIn(processing_base_img, smooth, method)} :
             LET ksize == kernel_size_var
                 enhanced == Enhanced(method, img_in, ksize)
                 title == Title(StatusPrefix(smooth, method), method)
             IN  /\ results' = SetItem(results, title, enhanced)
                 /\ usedKernel' = Remember(results, usedKernel, title,
                                           IF method \in SizedMethods THEN ksize ELSE 0)
                 /\ Done(Op("apply_method", method, smooth), "")
                 /\ UNCHANGED <<original_img, processing_base_img, current_name,
                                kernel_size_var, report, outdir>>

\* ------------------------------------------------------------------- save_report
HasResultsLax(d) == Len(d) >= 1

\* the negation of len(self.results) <= 1
HasResults(d) == Len(d) > 1

CoverPage(name) ==
    [title |-> <<"Spatial Filtering Analysis">>, left |-> None, right |-> None,
     text |-> <<Lit("Image: "), Lit(name)>>]

\* the page of one entry: both rasters, and the filter expression when the
\* cleaned name is a key of filter_kernels (the callable gets the slider's value)
EntryPage(entry, orig, k) ==
    [title |-> <<"Analysis: ">> \o entry.name, left |-> orig, right |-> entry.img,
     text |-> IF CleanName(entry.name) \in FilterKernelNames
              THEN <<Lit("Filter Expression:\n")>> \o filter_kernels(CleanName(entry.name), k)
              ELSE <<>>]

\* for name, proc_img in self.results.items(): skip "Original", one page each
RECURSIVE EntryPages(_, _, _)
EntryPages(d, orig, k) ==
    IF d = <<>> THEN <<>>
    ELSE IF Head(d).name = OriginalName THEN EntryPages(Tail(d), orig, k)
    ELSE <<EntryPage(Head(d), orig, k)>> \o EntryPages(Tail(d), orig, k)

save_report ==
    /\ nops < MaxOps
    /\ IF ~HasResults(results)
       THEN Rejected(Op("save_report", "", FALSE), "NoResults", "showwarning")
       ELSE /\ outdir' = TRUE
            /\ report' = <<CoverPage(current_name)>>
                            \o EntryPages(results, original_img, kernel_size_var)
            /\ Done(Op("save_report", "", FALSE), "showinfo")
            /\ UNCHANGED <<original_img, processing_base_img, current_name,
                           kernel_size_var, results, usedKernel>>

\* ------------------------------------------------------------- specification
Next ==
    \/ upload_image
    \/ reset_image
    \/ add_noise
    \/ apply_method
    \/ update_kernel_label
    \/ save_report

Spec == Init /\ [][Next]_vars

\* sessions with one probe raster loaded and the slider at any odd size, one
\* call short of MaxOps: the inputs the filters are exercised on
Checker(a, b) ==
    AsRaster([r \in 1..Height |-> [c \in 1..Width |-> IF (r + c) % 2 = 0 THEN a ELSE b]])
Impulse(p, fg, bg) ==
    AsRaster([r \in 1..Height |-> [c \in 1..Width |->
        IF (r - 1) * Width + c = p THEN fg ELSE bg]])
Stripes(a, b) ==
    AsRaster([r \in 1..Height |-> [c \in 1..Width |-> IF r % 2 = 1 THEN a ELSE b]])
Steps(a, d) ==
    AsRaster([r \in 1..Height |-> [c \in 1..Width |->
        (a + d * (((r - 1) * Width + c) \div 2)) % 256]])

\* two 1s, two 2s, every other sample a value of its own
TieImg ==
    AsRaster([r \in 1..Height |-> [c \in 1..Width |->
        IF (r - 1) * Width + c <= 2 THEN 1
        ELSE IF (r - 1) * Width + c <= 4 THEN 2
        ELSE (r - 1) * Width + c + 2]])

ProbeRasters ==
    {GrayImg, RampImg, TieImg}
    \cup {Checker(a, b) : a, b \in {0, 1, 2, UInt8Max}}
    \cup {Impulse(p, v, UInt8Max - v) : p \in 1..(Height * Width), v \in {0, UInt8Max}}
    \cup {Stripes(a, b) : a, b \in {1, 2, UInt8Max}}
    \cup {Steps(a, d) : a \in {1, 200}, d \in {1, 7, 60}}

OddSizes == {Ksize(val) : val \in SliderTenths}

InitFilter ==
    /\ original_img \in ProbeRasters
    /\ processing_base_img = original_img
    /\ current_name = "probe"
    /\ kernel_size_var \in OddSizes
    /\ results = ResetResults(<<>>, original_img)
    /\ report = None
    /\ outdir = FALSE
    /\ dialog = ""
    /\ lastOp = Op("update_kernel_label", "", FALSE)
    /\ outcome = "ok"
    /\ pre = [n |-> 1, noised |-> FALSE]
    /\ usedKernel = <<0>>
    /\ nops = MaxOps - 1

NextFilter == apply_method

SpecFilter == InitFilter /\ [][NextFilter]_vars

\* ===================================================================
\* Properties
\* ===================================================================
Ok(name) == lastOp.name = name /\ outcome = "ok"

Pixels(img) == (1..Rows(img)) \X (1..Cols(img))

SameShape(a, b) == Rows(a) = Rows(b) /\ Cols(a) = Cols(b)

NonOriginal(d) == SelectSeq(d, LAMBDA e : e.name # OriginalName)

EntryOf(d, name) == d[IndexOf(d, name)]

\* C1: after a successful reset, results is exactly {Original: original} and
\* the working base equals the original, whatever was recorded before
C1_ResetRestores ==
    Ok("reset_image") =>
        /\ results = <<[name |-> OriginalName, img |-> original_img]>>
        /\ processing_base_img = original_img

\* a reset that had a noise entry and a noised base to discard
C1_Witness ==
    /\ Ok("reset_image")
    /\ pre.n >= 2
    /\ pre.noised

\* out is what one noise call can make of src: salt, pepper, or a sample within
\* the gaussian spread (one level of truncation included)
IsNoiseOf(out, src) ==
    /\ SameShape(out, src)
    /\ \A q \in Pixels(src) :
          \/ out[q[1]][q[2]] \in {0, UInt8Max}
          \/ Abs(out[q[1]][q[2]] - src[q[1]][q[2]]) <= GaussLevels + 1

\* C2: every successful add_noise leaves original_img alone and makes the new
\* working base, which is also the recorded noise entry, a perturbation of
\* original_img, not of the working base it replaces
C2_NoiseFromOriginal ==
    [][(lastOp'.name = "add_noise" /\ outcome' = "ok") =>
          /\ original_img' = original_img
          /\ IsNoiseOf(processing_base_img', original_img)
          /\ NoiseTitle(lastOp'.arg) \in Keys(results')
          /\ EntryOf(results', NoiseTitle(lastOp'.arg)).img = processing_base_img'
      ]_vars

\* noise added when the working base already differed from the original
C2_Witness ==
    /\ Ok("add_noise")
    /\ pre.noised
    /\ pre.n >= 2
    /\ processing_base_img # original_img

\* the pages a report of d must have after the cover, in d's order
PagesMatch(doc, d) ==
    /\ Len(doc) = 1 + (Len(d) - 1)
    /\ doc[1].title = <<"Spatial Filtering Analysis">>
    /\ \A i \in 2..Len(doc) :
          /\ doc[i].title = <<"Analysis: ">> \o NonOriginal(d)[i - 1].name
          /\ doc[i].right = NonOriginal(d)[i - 1].img

Expected(op) ==
    CASE op.name = "upload_image" /\ op.arg = "notes.bmp" -> "IOError"
      [] op.name \in {"reset_image", "add_noise"} /\ original_img = None -> "NoImageLoaded"
      [] op.name = "apply_method" /\ processing_base_img = None -> "NoImageLoaded"
      [] op.name = "add_noise" /\ original_img # None /\ op.arg \notin {"gaussian", "s&p"}
           -> "InvalidParameter"
      [] op.name = "apply_method" /\ processing_base_img # None
           /\ op.arg \notin SizedMethods \cup SharpenMethods -> "InvalidParameter"
      [] op.name = "save_report" /\ Len(results) <= 1 -> "NoResults"
      [] OTHER -> ""

SessionData == <<original_img, processing_base_img, results, current_name,
                 kernel_size_var, report, outdir>>

\* C4: each failing case ends with its error, and a call that does not end ok
\* leaves the image, the working base, the results and the files as they were
C4_FailuresChangeNothing ==
    [][/\ Expected(lastOp') # "" => outcome' = Expected(lastOp')
       /\ outcome' # "ok" => SessionData' = SessionData
      ]_vars

\* an unreadable file offered to a session that holds an image and a result
C4_Witness ==
    /\ outcome = "IOError"
    /\ original_img # None
    /\ Len(results) >= 2

\* C5: once an image is loaded, results has exactly one Original entry and it
\* holds original_img
C5_OriginalEntry ==
    original_img # None =>
        /\ OriginalName \in Keys(results)
        /\ \A i \in DOMAIN results :
              results[i].name = OriginalName => i = 1 /\ results[i].img = original_img

\* a second image loaded over a session that had recorded results
C5_Witness ==
    /\ Ok("upload_image")
    /\ pre.n >= 2
    /\ original_img = RampImg

\* C6: a successful apply_method leaves the working base and the original
\* alone, computes the entry from the working base, and writes only the one
\* entry named after the request
C6_FilterReadsBase ==
    [][(lastOp'.name = "apply_method" /\ outcome' = "ok") =>
          LET method == lastOp'.arg
              title == Title(StatusPrefix(lastOp'.flag, method), method)
          IN  /\ processing_base_img' = processing_base_img
              /\ original_img' = original_img
              /\ Keys(results') = Keys(results) \cup {title}
              /\ Len(results') = Cardinality(Keys(results'))
              /\ \A i \in DOMAIN results : results'[i].name = results[i].name
              /\ \A i \in DOMAIN results :
                    results[i].name # title => results'[i] = results[i]
              /\ \E img_in \in {ImgIn(processing_base_img, lastOp'.flag, method)} :
                    EntryOf(results', title).img = Enhanced(method, img_in, kernel_size_var)
      ]_vars

\* a filter applied to a noised base, its entry recorded after the noise entry
C6_Witness ==
    /\ Ok("apply_method")
    /\ processing_base_img # original_img
    /\ Len(results) >= 3
    /\ results[Len(results)].img # processing_base_img

\* the kernel size the entry on page i of the report was computed with
PageKernel(i) == usedKernel[IndexOf(results, NonOriginal(results)[i - 1].name)]

HasNumber(text, v) == \E t \in DOMAIN text : text[t].kind = "num" /\ text[t].n = v

\* C7: in a report just written, the page of every entry made by Mean, Median
\* or Mode carries a description that includes the kernel size the entry was
\* computed with
C7_ReportNamesKernelSize ==
    Ok("save_report") =>
        \A i \in 2..Len(report) :
            PageKernel(i) > 0 => HasNumber(report[i].text, PageKernel(i))

\* the number of samples of window w equal to v
Count(w, v) == Cardinality({i \in DOMAIN w : w[i] = v})

\* m occurs in w at least as often as every other value, and is the smallest
\* of the values occurring that often
IsSmallestMostFrequent(m, w) ==
    \E cm \in {Count(w, m)} :
        /\ cm > 0
        /\ \A v \in {w[i] : i \in DOMAIN w} :
              \E cv \in {Count(w, v)} : cv < cm \/ (cv = cm /\ m <= v)

ModeEntry == EntryOf(results, <<"Mode Filter">>).img

\* C8: every sample of a Mode Filter result is the most frequent value of the
\* k x k neighbourhood of the working base, the smallest one on a tie
C8_ModeTieSmallest ==
    (Ok("apply_method") /\ lastOp.arg = "Mode Filter") =>
        /\ SameShape(ModeEntry, processing_base_img)
        /\ \A q \in Pixels(processing_base_img) :
              \E w \in {Window(processing_base_img, q[1], q[2], kernel_size_var, "reflect")} :
                  IsSmallestMostFrequent(ModeEntry[q[1]][q[2]], w)

\* a 3x3 neighbourhood in which 1 and 2 tie for the highest count, and 1 is returned
C8_Witness ==
    /\ Ok("apply_method") /\ lastOp.arg = "Mode Filter"
    /\ kernel_size_var = 3
    /\ \E q \in Pixels(processing_base_img) :
          \E w \in {Window(processing_base_img, q[1], q[2], 3, "reflect")} :
              /\ ModeEntry[q[1]][q[2]] = 1
              /\ Count(w, 1) = Count(w, 2)
              /\ \A i \in DOMAIN w : Count(w, w[i]) <= Count(w, 1)

IsOddSize(k) == k \in SliderFrom..SliderTo /\ k % 2 = 1

\* C9: the kernel size is 3 at start and after every slider change an odd
\* integer in [3,15], and so is every size Mean, Median or Mode was called with
C9_KernelOdd ==
    /\ IsOddSize(kernel_size_var)
    /\ nops = 0 => kernel_size_var = 3
    /\ \A i \in DOMAIN usedKernel : usedKernel[i] # 0 => IsOddSize(usedKernel[i])

\* a sized filter called after the slider was moved to its upper end
C9_Witness ==
    /\ Ok("apply_method") /\ lastOp.arg \in SizedMethods
    /\ \E i \in DOMAIN usedKernel : usedKernel[i] = SliderTo
    /\ kernel_size_var = SliderTo

Min255(x) == IF x > 255 THEN 255 ELSE x

InInt16(x) == -32768 <= x /\ x <= 32767

SharpenInput == ImgIn(processing_base_img, lastOp.flag, lastOp.arg)

SharpenEntry ==
    EntryOf(results, Title(StatusPrefix(lastOp.flag, lastOp.arg), lastOp.arg)).img

\* the sample at q of the Laplacian result is max(0, in - min(255, |lap|)),
\* with lap the exact aperture sum, which fits 16 signed bits
LaplacianSample(in, out, q) ==
    \E lap \in {Correlate3(in, LaplacianKernel, q[1], q[2])} :
        /\ InInt16(lap)
        /\ out[q[1]][q[2]] \in 0..255
        /\ out[q[1]][q[2]] = IF in[q[1]][q[2]] < Min255(Abs(lap)) THEN 0
                             ELSE in[q[1]][q[2]] - Min255(Abs(lap))

\* the sample at q of the Sobel result is 0.5*min(255,|gx|) + 0.5*min(255,|gy|)
\* as an 8-bit integer, with gx and gy exact and within 16 signed bits
SobelSample(in, out, q) ==
    \E gx \in {Correlate3(in, SobelXKernel, q[1], q[2])},
       gy \in {Correlate3(in, SobelYKernel, q[1], q[2])} :
        /\ InInt16(gx) /\ InInt16(gy)
        /\ out[q[1]][q[2]] \in 0..255
        /\ 2 * out[q[1]][q[2]] - (Min255(Abs(gx)) + Min255(Abs(gy))) \in {-1, 0, 1}

\* C10: Laplacian Sharpening and Sobel Edge Detection results stay in [0,255]
\* by saturation, with the values the two formulas give
C10_SharpenSaturates ==
    (Ok("apply_method") /\ lastOp.arg \in SharpenMethods) =>
        \E in \in {SharpenInput}, out \in {SharpenEntry} :
            /\ SameShape(out, in)
            /\ \A q \in Pixels(in) :
                  IF lastOp.arg = "Laplacian Sharpening"
                  THEN LaplacianSample(in, out, q)
                  ELSE SobelSample(in, out, q)

\* a Laplacian result with a nonzero sample whose |Laplacian| exceeds both 255
\* and the sample: the magnitude is clamped and the subtraction stops at 0
C10_Witness ==
    /\ Ok("apply_method") /\ lastOp.arg = "Laplacian Sharpening"
    /\ \E in \in {SharpenInput}, out \in {SharpenEntry} :
          \E q \in Pixels(in) :
              /\ in[q[1]][q[2]] > 0
              /\ Abs(Correlate3(in, LaplacianKernel, q[1], q[2])) > 255
              /\ out[q[1]][q[2]] = 0

====
